---- MODULE Spec2Model ----
(***************************************************************************)
(* tcpw: wait for TCP endpoints.  Model of Connect (src/main.go:124-159),  *)
(* its per-endpoint retry loops, TryDial (src/main.go:161-176) and the      *)
(* errgroup / context machinery Connect is built on, and of main with      *)
(* flag.Parse, checkConfig and Run around it (src/main.go:52-122), the      *)
(* -a values going through StringList.Set or through Endpoints.Set          *)
(* (src/main.go:211-218).                                                   *)
(*                                                                          *)
(* Specifications: Spec is one call of Connect, under any configuration    *)
(* the flags can give it (a retry interval of 0 makes time.NewTicker       *)
(* panic, a negative timeout sets no deadline but a dialer whose deadline  *)
(* has always passed); FairSpec adds the scheduler's fairness,              *)
(* NoDeadlineSpec is the call without a timeout, WithDeadlineSpec the call *)
(* with a timeout, PromptSpec the call against endpoints that answer at    *)
(* once, HistSpec the call with a record of pauses and returns (each over  *)
(* its own kinds of address); MainSpec is the whole program from           *)
(* flag.Parse to exit; TryDialSpec is TryDial called on its own; TwinSpec   *)
(* is Run executed twice, under two settings of -q and -v, against the     *)
(* same endpoints and schedule, with what each run prints.                  *)
(*                                                                          *)
(* Time is a discrete clock counted from the call of Connect.  A call of   *)
(* TryDial is a call of d.DialContext, which waits: a port out of range is *)
(* rejected at once, a host name is looked up at every dial, and the       *)
(* connection attempt follows.  The answer to a lookup may take any time,  *)
(* and so may a connection attempt while nobody listens (refused at once,  *)
(* or unanswered); the context may end while either is awaited, and what   *)
(* the dial gives is decided when it ends.  Every other step is prompt: a  *)
(* goroutine that can run (a select with a ready case, a lookup or a       *)
(* connection that the context ends, a connection that a listener          *)
(* accepts, a fired timer, an unblocked Wait) runs before the clock moves  *)
(* on; steps that are ready at the same instant interleave freely.         *)
(***************************************************************************)
EXTENDS Integers, Sequences, FiniteSets, TLC

\* ------------------------------------------------------------------ bounds
MaxEndpoints == 2      \* longest endpoint list
MaxTimeout == 2        \* largest config.timeout
MaxInterval == 2       \* largest config.interval
MaxUpAt == 2           \* latest time at which a listener starts
Backlog == 1           \* connections a listener holds open at a time
MaxMainEndpoints == 1  \* longest endpoint list given to main

Max(a, b) == IF a >= b THEN a ELSE b
Min(a, b) == IF a <= b THEN a ELSE b

\* the clock saturates at MaxTime, past every deadline and every first
\* successful retry
MaxTime == Max(MaxTimeout + 1, MaxUpAt + MaxInterval)

\* ------------------------------------------------------------------ values
\* error values: nil, the two context errors, and the *net.AddrError that
\* the dial of endpoint number src produces (OpError stands for every dial
\* error that wraps neither an address error nor a DNS error)
Nil == [type |-> "nil", src |-> 0]
Canceled == [type |-> "Canceled", src |-> 0]
DeadlineExceeded == [type |-> "DeadlineExceeded", src |-> 0]
AddrError(i) == [type |-> "AddrError", src |-> i]
\* the *net.DNSError of a host name that does not resolve, or whose lookup
\* the context cut short
DNSError(i) == [type |-> "DNSError", src |-> i]
OpError(i) == [type |-> "OpError", src |-> i]

\* an endpoint address and what is behind it: an address that SplitHostPort
\* accepts and the dial rejects (port out of range), a host name that does not
\* resolve, an address nobody ever listens on, or an address whose listener
\* starts at time upAt and stays; name tells whether the host is given by a
\* name, which every dial looks up, or by an IP literal (of the hosts given
\* by a name that resolves, one has no listener and one has a listener from
\* the start)
InvalidAddr == [kind |-> "invalid", upAt |-> 0, name |-> FALSE]
UnresolvableAddr == [kind |-> "unresolvable", upAt |-> 0, name |-> TRUE]
NeverAddr == [kind |-> "never", upAt |-> 0, name |-> FALSE]
UpAddr(t) == [kind |-> "up", upAt |-> t, name |-> FALSE]
Named(a) == [a EXCEPT !.name = TRUE]
Addrs == {InvalidAddr, UnresolvableAddr, NeverAddr, Named(NeverAddr),
          Named(UpAddr(0))} \cup {UpAddr(t) : t \in 0..MaxUpAt}

\* the non-empty endpoint lists over a set of addresses
EndpointLists(addrs) == UNION {[1..n -> addrs] : n \in 1..MaxEndpoints}

\* the addresses Connect is called on: of the listeners that start late, the
\* latest; of the host names, the one somebody listens on
ConnectAddrs ==
    {InvalidAddr, UnresolvableAddr, NeverAddr, Named(UpAddr(0)), UpAddr(0),
     UpAddr(MaxUpAt)}

VARIABLES
    config,     \* the config struct: timeout, interval, endpoints
    now,        \* time elapsed since Connect was called
    connectPc,  \* Connect: "launch" (in the range loop), "wait", "returned";
                \* "panicked" if a loop's NewTicker panicked
    ctxErr,     \* ctx.Err() of the context the loops share (Nil: not done)
    gErr,       \* the errgroup's err, set once
    pc,         \* per loop: "idle", "dial" (about to call TryDial),
                \* "lookup" (in TryDial, the lookup of the host name
                \* awaited), "conn" (in TryDial, the connection attempt
                \* pending), "select", "done"; "dead" once the process has
                \* panicked
    tickC,      \* per loop: a tick is buffered in ticker.C
    tickPhase,  \* per loop: time since the ticker was created or last fired
    probes,     \* per loop: TryDial calls made: 0, 1, or 2 for more than one
    last,       \* per loop: the outcome of its latest TryDial
    tried,      \* per loop: what its latest TryDial did and returned
    conns,      \* per loop: connections its probes opened and did not close
    callAt,     \* the time at which the TryDial call under way was made,
                \* when TryDial is called on its own
    twin,       \* two runs of Run that differ in config.quiet and
                \* config.verbose only, each with what it has printed, when
                \* the program is run twice against the same endpoints and
                \* schedule
    late,       \* history, per loop: it has taken a tick in a select while
                \* ctx was done
    pause,      \* history, per loop: the time it has spent in the select it
                \* is in
    errs,       \* history: the non-nil errors the loops returned, in order
    loopRet,    \* per loop: the value the loop function returned
    result,     \* the value Connect returned
    retAt,      \* the time at which Connect returned
    args,       \* the values of the -a flags on the command line
    mainPc,     \* main: "parse" (in flag.Parse), "main", "run" (in Run),
                \* "exit" (Run returned), "exited"; "connect" when Connect
                \* is called on its own, "twin" when Run is executed twice
    executed,   \* Run has executed the command
    cmdErr,     \* the value cmd.Run() returned (Nil if it was not called)
    runErr,     \* the value Run returned
    exitCode    \* the exit code of the process (NoExit: still running)

\* the record of the probes
probeVars == <<tried, conns>>

\* the record of the loops' pauses and returns, kept under HistSpec only
histVars == <<late, pause, errs>>

\* the state of main and Run around Connect
mainVars == <<args, mainPc, executed, cmdErr, runErr, exitCode>>

vars == <<config, now, connectPc, ctxErr, gErr, pc, tickC, tickPhase, probes,
          last, loopRet, result, retAt, callAt, twin, mainVars, probeVars,
          histVars>>

N == Len(config.endpoints)
Loops == 1..N

\* ------------------------------------------------------------------ TryDial
\* the deadline of the context Connect hands to its loops, as a time on the
\* clock: context.WithTimeout(ctx, config.timeout) if config.timeout > 0,
\* and none (0) otherwise
CtxDeadline(cfg) == IF cfg.timeout > 0 THEN cfg.timeout ELSE 0

\* the context a dial runs under is done at time t: ctx is done, the
\* deadline of ctx has passed, or the dialer's own deadline has, which is
\* the start of the dial plus Dialer.Timeout (with a negative Timeout it has
\* passed when the dial starts)
DialCtxDone(cerr, deadline, timeout, start, t) ==
    \/ cerr # Nil
    \/ deadline > 0 /\ t >= deadline
    \/ timeout # 0 /\ t >= start + timeout

\* the error of a connection attempt that its context ended
DialCtxErr(cerr) == IF cerr # Nil THEN cerr ELSE DeadlineExceeded

\* d.DialContext(ctx, "tcp", addr) is called.  It parses the port before it
\* looks at the host or at the context, so a port out of range fails at
\* once with *net.AddrError whatever the context; otherwise (Nil) the call
\* goes on, with the lookup of the host if it is given by name and with the
\* connection attempt if it is an IP literal.
DialStarts(addr, i) == IF addr.kind = "invalid" THEN AddrError(i) ELSE Nil

\* the lookup of the host name ends at time t.  The resolver waits for the
\* answer or for the context, whichever comes first: a context that is done
\* cuts the lookup short, which the resolver reports as a *net.DNSError, as
\* it does a name that does not resolve; otherwise (Nil) the name resolves
\* and the connection attempt follows.
LookupEnds(cerr, deadline, timeout, start, t, addr, i) ==
    IF DialCtxDone(cerr, deadline, timeout, start, t) THEN DNSError(i)
    ELSE IF addr.kind = "unresolvable" THEN DNSError(i)
    ELSE Nil

\* the connection attempt ends at time t, the listener holding n connections
\* open: with the context's error if the context is done by then, also if a
\* listener would have accepted; with nil if a listener is up and has room;
\* with another error (refused, unanswered) if not.
ConnectEnds(cerr, deadline, timeout, start, t, addr, n, i) ==
    IF DialCtxDone(cerr, deadline, timeout, start, t) THEN DialCtxErr(cerr)
    ELSE IF addr.kind = "up" /\ t >= addr.upAt /\ n < Backlog THEN Nil
    ELSE OpError(i)

\* faulty variants: only the DNS error is recognised; every dial error is
\* taken for an address error
IsAddrOrDNSErrorDNSOnly(err) == err.type = "DNSError"
IsAddrOrDNSErrorAnyOp(err) == err.type \in {"AddrError", "DNSError", "OpError"}

\* errors.As(err, &addrErr) || errors.As(err, &dnsErr)
IsAddrOrDNSError(err) == err.type = "AddrError" \/ err.type = "DNSError"

\* what a TryDial call returns, (res, err), with what it did: the number of
\* DialContext calls it made and of connections it left open
NoCall == [res |-> FALSE, err |-> Nil, dials |-> 0, open |-> 0]

\* faulty variant: the connection of a successful dial is not closed
TryDialReturnsNoClose(err) ==
    IF err # Nil
    THEN IF err.type = "AddrError" \/ err.type = "DNSError"
         THEN [res |-> FALSE, err |-> err, dials |-> 1, open |-> 0]
         ELSE [res |-> FALSE, err |-> Nil, dials |-> 1, open |-> 0]
    ELSE [res |-> TRUE, err |-> Nil, dials |-> 1, open |-> 1]

\* what TryDial does with the result of its one DialContext: on an error
\* (false, err) or (false, nil); on success conn.Close(), which releases the
\* connection (also when Close reports an error), and (true, nil)
TryDialReturns(err) ==
    IF err # Nil
    THEN IF IsAddrOrDNSError(err)
         THEN [res |-> FALSE, err |-> err, dials |-> 1, open |-> 0]
         ELSE [res |-> FALSE, err |-> Nil, dials |-> 1, open |-> 0]
    ELSE [res |-> TRUE, err |-> Nil, dials |-> 1, open |-> 0]

\* the ProbeOutcome of a TryDial result
Outcome(r) ==
    IF r.err # Nil THEN "Invalid"
    ELSE IF r.res THEN "Connected"
    ELSE "Unreachable"

\* ------------------------------------------------------------------ errgroup
\* faulty variants: the last error wins; context errors are not recorded
ErrOnceLast(gerr, err) == err
ErrOnceNoCtx(gerr, err) ==
    IF err.type \in {"Canceled", "DeadlineExceeded"} THEN gerr
    ELSE IF gerr = Nil THEN err ELSE gerr

\* g.errOnce.Do(func() { g.err = err; ... }): the first non-nil error stays
ErrOnce(gerr, err) == IF gerr = Nil THEN err ELSE gerr

\* faulty variants: the cancel function is never wired to the loops' context;
\* a later cancel replaces the error of a context that is already done
CancelNoop(cerr, cause) == cerr
CancelOverwrites(cerr, cause) == cause

\* cancelling a context that is already done changes nothing
Cancel(cerr, cause) == IF cerr = Nil THEN cause ELSE cerr

\* faulty variant: the group cancels its context when any function returns
GroupCancelAlways(cerr, err) == Cancel(cerr, Canceled)

\* the group cancels its context when a function returns a non-nil error
GroupCancel(cerr, err) == IF err # Nil THEN Cancel(cerr, Canceled) ELSE cerr

\* faulty variant: the loops select on the group context, not on the
\* context that carries the timeout
CtxDoneCanceledOnly(cerr) == cerr = Canceled

\* <-ctx.Done() is ready
CtxDone(cerr) == cerr # Nil

\* faulty variant: each loop is run to its end before the next is launched
CanLaunchSequential(pcs, i) == \A j \in DOMAIN pcs : j < i => pcs[j] = "done"

\* the range loop launches the loops in list order, waiting for none
CanLaunch(pcs, i) == \A j \in DOMAIN pcs : j < i => pcs[j] # "idle"

\* faulty variant: Wait returns as soon as one function has returned
WaitReadyAny(pcs) == \E i \in DOMAIN pcs : pcs[i] = "done"

\* g.Wait() blocks on the WaitGroup until every launched function returned
WaitReady(pcs) == \A i \in DOMAIN pcs : pcs[i] = "done"

\* one more probe: none, one, more than one
Inc(n) == IF n = 0 THEN 1 ELSE 2

\* time.NewTicker(d) panics ("non-positive interval for NewTicker")
NewTickerPanics(d) == d <= 0

\* the exit status of a process that a panic ended
PanicExit == 2

\* ------------------------------------------------------------------ main, Run
\* the -on tokens (one that checkConfig rejects among them) and the command
\* line after the flags: none, or a command
Policies == {"s", "f", "any", "x"}
Commands == {<<>>, <<"touch">>}

\* the errors of checkConfig
NoEndpoints == [type |-> "NoEndpoints", src |-> 0]
BadPolicy == [type |-> "BadPolicy", src |-> 0]

\* what cmd.Run() can return: nil, an *exec.ExitError (src is the exit code
\* of the command), or another error (the command could not be started)
ExitError(c) == [type |-> "ExitError", src |-> c]
StartError == [type |-> "StartError", src |-> 0]
CmdResults == {Nil, ExitError(1), ExitError(3), StartError}

\* os.Exit(22) // Invalid argument code
InvalidArgument == 22
\* exitCode while the process runs
NoExit == -1

\* faulty variant: the -on token is not validated
checkConfigEndpointsOnly(cfg) ==
    IF Len(cfg.endpoints) = 0 THEN NoEndpoints ELSE Nil

\* checkConfig
checkConfig(cfg) ==
    IF Len(cfg.endpoints) = 0 THEN NoEndpoints
    ELSE IF cfg.on # "s" /\ cfg.on # "f" /\ cfg.on # "any" THEN BadPolicy
    ELSE Nil

\* faulty variant: the outcome of Connect is not looked at
ExecutesCommandAnyOutcome(cfg, err) ==
    Len(cfg.command) > 0 /\ cfg.on \in {"s", "f", "any"}

\* the condition of Run under which the command is executed
ExecutesCommand(cfg, err) ==
    /\ Len(cfg.command) > 0
    /\ \/ cfg.on = "s" /\ err = Nil
       \/ cfg.on = "f" /\ err # Nil
       \/ cfg.on = "any"

\* faulty variant: a succeeding command does not clear the error of Connect
RunResultKeepsError(ex, cerr, err) ==
    IF ex /\ cerr # Nil THEN cerr ELSE err

\* the value Run returns: err = cmd.Run() if the command was executed
RunResult(ex, cerr, err) == IF ex THEN cerr ELSE err

\* the exit code main ends the process with, given what Run returned
ExitCode(err) ==
    IF err = Nil THEN 0
    ELSE IF err.type = "ExitError" THEN err.src
    ELSE 1

\* ------------------------------------------------------------------ Init
\* the state in which Connect is called, on a list of the given addresses
ConnectInit(addrs) ==
    /\ config \in [timeout : (-1)..MaxTimeout, interval : 0..MaxInterval,
                   endpoints : EndpointLists(addrs), on : {"s"},
                   command : {<<>>}]
    /\ args = config.endpoints
    /\ now = 0
    /\ connectPc = "launch"
    /\ mainPc = "connect"
    /\ executed = FALSE
    /\ cmdErr = Nil
    /\ runErr = Nil
    /\ exitCode = NoExit
    /\ ctxErr = Nil
    /\ gErr = Nil
    /\ pc = [i \in 1..Len(config.endpoints) |-> "idle"]
    /\ tickC = [i \in 1..Len(config.endpoints) |-> FALSE]
    /\ tickPhase = [i \in 1..Len(config.endpoints) |-> 0]
    /\ probes = [i \in 1..Len(config.endpoints) |-> 0]
    /\ last = [i \in 1..Len(config.endpoints) |-> "none"]
    /\ tried = [i \in 1..Len(config.endpoints) |-> NoCall]
    /\ conns = [i \in 1..Len(config.endpoints) |-> 0]
    /\ late = [i \in 1..Len(config.endpoints) |-> FALSE]
    /\ pause = [i \in 1..Len(config.endpoints) |-> 0]
    /\ errs = <<>>
    /\ loopRet = [i \in 1..Len(config.endpoints) |-> Nil]
    /\ result = Nil
    /\ retAt = 0
    /\ callAt = 0
    /\ twin = <<>>

Init == ConnectInit(ConnectAddrs)

\* ------------------------------------------------------------------ actions
\* for _, addr := range config.endpoints { g.Go(func() error { ticker := ...
\* time.NewTicker panics on an interval that is not positive, and a panic in
\* a goroutine ends the process
Go(i) ==
    /\ i \in Loops
    /\ connectPc = "launch"
    /\ pc[i] = "idle"
    /\ CanLaunch(pc, i)
    /\ IF NewTickerPanics(config.interval)
       THEN /\ pc' = [j \in Loops |-> "dead"]
            /\ connectPc' = "panicked"
            /\ mainPc' = "exited"
            /\ exitCode' = PanicExit
            /\ UNCHANGED <<args, executed, cmdErr, runErr>>
       ELSE /\ pc' = [pc EXCEPT ![i] = "dial"]
            /\ connectPc' = IF i = N THEN "wait" ELSE "launch"
            /\ UNCHANGED mainVars
    /\ UNCHANGED <<config, callAt, twin, now, ctxErr, gErr, tickC, tickPhase, probes, last,
                   loopRet, result, retAt, probeVars, histVars>>

\* the loop function returns err: ticker.Stop() is deferred, and the errgroup
\* records a non-nil err once and cancels the group's context
LoopReturn(i, err) ==
    /\ pc' = [pc EXCEPT ![i] = "done"]
    /\ loopRet' = [loopRet EXCEPT ![i] = err]
    /\ tickC' = [tickC EXCEPT ![i] = FALSE]
    /\ tickPhase' = [tickPhase EXCEPT ![i] = 0]
    /\ gErr' = IF err # Nil THEN ErrOnce(gErr, err) ELSE gErr
    /\ ctxErr' = GroupCancel(ctxErr, err)

\* faulty variant: a loop whose probe connected pauses and probes again
AfterTryDialKeepsGoing(i, r) ==
    /\ last' = [last EXCEPT ![i] = Outcome(r)]
    /\ tried' = [tried EXCEPT ![i] = r]
    /\ conns' = [conns EXCEPT ![i] = @ + r.open]
    /\ IF r.err # Nil THEN LoopReturn(i, r.err)
       ELSE /\ pc' = [pc EXCEPT ![i] = "select"]
            /\ UNCHANGED <<loopRet, tickC, tickPhase, gErr, ctxErr>>

\* res, err := TryDial(ctx, d, addr) has returned r: the branches on it
AfterTryDial(i, r) ==
    /\ last' = [last EXCEPT ![i] = Outcome(r)]
    /\ tried' = [tried EXCEPT ![i] = r]
    /\ conns' = [conns EXCEPT ![i] = @ + r.open]
    /\ IF r.err # Nil THEN LoopReturn(i, r.err)
       ELSE IF r.res THEN LoopReturn(i, Nil)
       ELSE /\ pc' = [pc EXCEPT ![i] = "select"]
            /\ UNCHANGED <<loopRet, tickC, tickPhase, gErr, ctxErr>>

\* faulty variant: a loop that finds the context done returns its cause
\* without calling TryDial
DialBodyChecksCtxFirst(i) ==
    /\ i \in Loops
    /\ pc[i] = "dial"
    /\ IF CtxDone(ctxErr)
       THEN /\ LoopReturn(i, ctxErr)
            /\ UNCHANGED <<probes, last, tried, conns>>
       ELSE /\ probes' = [probes EXCEPT ![i] = Inc(@)]
            /\ IF DialStarts(config.endpoints[i], i) # Nil
               THEN AfterTryDial(i, TryDialReturns(
                                       DialStarts(config.endpoints[i], i)))
               ELSE /\ pc' = [pc EXCEPT ![i] = IF config.endpoints[i].name
                                               THEN "lookup" ELSE "conn"]
                    /\ UNCHANGED <<last, tried, conns, loopRet, tickC,
                                   tickPhase, gErr, ctxErr>>
    /\ UNCHANGED <<config, callAt, twin, now, connectPc, result, retAt, mainVars>>

\* the loop calls TryDial(ctx, d, addr), which calls d.DialContext: a port
\* out of range makes the call return at once; otherwise the call waits,
\* for the lookup of a host name or for the connection to an IP literal
DialBody(i) ==
    /\ i \in Loops
    /\ pc[i] = "dial"
    /\ probes' = [probes EXCEPT ![i] = Inc(@)]
    /\ IF DialStarts(config.endpoints[i], i) # Nil
       THEN AfterTryDial(i, TryDialReturns(DialStarts(config.endpoints[i], i)))
       ELSE /\ pc' = [pc EXCEPT ![i] = IF config.endpoints[i].name
                                       THEN "lookup" ELSE "conn"]
            /\ UNCHANGED <<last, tried, conns, loopRet, tickC, tickPhase,
                           gErr, ctxErr>>
    /\ UNCHANGED <<config, callAt, twin, now, connectPc, result, retAt, mainVars>>

Dial(i) == DialBody(i) /\ UNCHANGED histVars

\* the lookup of the loop's dial ends: TryDial returns the DNS error, or
\* the dial goes on to the connection attempt.  The lookup waits for its
\* answer and for the Done channel of the dial's context, on no clock of its
\* own (the deadline argument is 0, none): under a timeout it is cut short
\* only once the timer of ctx has fired and ctx.Err() is set.  (The dialer's
\* own deadline, config.timeout after the start of the dial, is never
\* earlier than the deadline of ctx, which is config.timeout after the call
\* of Connect, and then the dial runs under ctx itself; only a negative
\* config.timeout gives the dial a context of its own, done from the start,
\* and the start of the dial is taken to be now.)
LookupEndBody(i) ==
    /\ i \in Loops
    /\ pc[i] = "lookup"
    /\ LET err == LookupEnds(ctxErr, 0, config.timeout, now, now,
                             config.endpoints[i], i) IN
       IF err # Nil
       THEN AfterTryDial(i, TryDialReturns(err))
       ELSE /\ pc' = [pc EXCEPT ![i] = "conn"]
            /\ UNCHANGED <<last, tried, conns, loopRet, tickC, tickPhase,
                           gErr, ctxErr>>
    /\ UNCHANGED <<config, callAt, twin, now, connectPc, probes, result, retAt,
                   mainVars>>

LookupEnd(i) == LookupEndBody(i) /\ UNCHANGED histVars

\* the connection attempt of the loop's dial ends, and TryDial returns.  The
\* attempt waits for the Done channel of the dial's context and, with the
\* deadline of ctx as its I/O deadline, for the clock
DialEndBody(i) ==
    /\ i \in Loops
    /\ pc[i] = "conn"
    /\ AfterTryDial(i, TryDialReturns(ConnectEnds(ctxErr, CtxDeadline(config),
                                                  config.timeout, now, now,
                                                  config.endpoints[i],
                                                  conns[i], i)))
    /\ UNCHANGED <<config, callAt, twin, now, connectPc, probes, result, retAt,
                   mainVars>>

DialEnd(i) == DialEndBody(i) /\ UNCHANGED histVars

\* select { case <-ticker.C: break
SelectTickBody(i) ==
    /\ i \in Loops
    /\ pc[i] = "select"
    /\ tickC[i]
    /\ tickC' = [tickC EXCEPT ![i] = FALSE]
    /\ pc' = [pc EXCEPT ![i] = "dial"]
    /\ UNCHANGED <<config, callAt, twin, now, connectPc, ctxErr, gErr, tickPhase, probes,
                   last, loopRet, result, retAt, mainVars, probeVars>>

SelectTick(i) == SelectTickBody(i) /\ UNCHANGED histVars

\* select { case <-ctx.Done(): return ctx.Err()
SelectDoneBody(i) ==
    /\ i \in Loops
    /\ pc[i] = "select"
    /\ CtxDone(ctxErr)
    /\ LoopReturn(i, ctxErr)
    /\ UNCHANGED <<config, callAt, twin, now, connectPc, probes, last, result, retAt,
                   mainVars, probeVars>>

SelectDone(i) == SelectDoneBody(i) /\ UNCHANGED histVars

\* the timer of context.WithTimeout(ctx, config.timeout) fires
Deadline ==
    /\ connectPc \in {"launch", "wait"}
    /\ config.timeout > 0
    /\ now >= config.timeout
    /\ ctxErr = Nil
    /\ ctxErr' = DeadlineExceeded
    /\ UNCHANGED <<config, callAt, twin, now, connectPc, gErr, pc, tickC, tickPhase, probes,
                   last, loopRet, result, retAt,
                   mainVars, probeVars, histVars>>

\* faulty variant: the interval is counted only while the loop is in the select
TickerRunsInSelect(i) == pc[i] = "select"

\* one unit of time passes: every running ticker advances, and one that
\* reaches config.interval puts a tick in its channel (capacity 1)
TickerRuns(i) == pc[i] \in {"dial", "lookup", "conn", "select"}

\* a loop's dial moves on at this instant: the call of TryDial is about to
\* be made, the context the lookup waits under is done, the context or the
\* deadline of the connection attempt ends it, or a listener is there to
\* accept it; the answer to a lookup and the refusal of a connection may
\* take any time
DialEndsNow(i) ==
    \/ pc[i] = "dial"
    \/ /\ pc[i] = "lookup"
       /\ DialCtxDone(ctxErr, 0, config.timeout, now, now)
    \/ /\ pc[i] = "conn"
       /\ DialCtxDone(ctxErr, CtxDeadline(config), config.timeout, now, now)
    \/ /\ pc[i] = "conn"
       /\ config.endpoints[i].kind = "up" /\ now >= config.endpoints[i].upAt

\* some goroutine or timer is ready to run at this instant
Urgent ==
    \/ \E i \in Loops : connectPc = "launch" /\ pc[i] = "idle" /\ CanLaunch(pc, i)
    \/ \E i \in Loops : DialEndsNow(i)
    \/ \E i \in Loops : pc[i] = "select" /\ (tickC[i] \/ CtxDone(ctxErr))
    \/ config.timeout > 0 /\ now >= config.timeout /\ ctxErr = Nil
    \/ connectPc = "wait" /\ WaitReady(pc)

TickBody ==
    /\ connectPc \in {"launch", "wait"}
    /\ ~Urgent
    /\ now' = Min(now + 1, MaxTime)
    /\ tickPhase' = [i \in Loops |->
                        IF TickerRuns(i)
                        THEN (tickPhase[i] + 1) % config.interval
                        ELSE tickPhase[i]]
    /\ tickC' = [i \in Loops |->
                    IF TickerRuns(i) /\ tickPhase[i] + 1 = config.interval
                    THEN TRUE ELSE tickC[i]]
    /\ UNCHANGED <<config, callAt, twin, connectPc, ctxErr, gErr, pc, probes, last, loopRet,
                   result, retAt, mainVars, probeVars>>

Tick == TickBody /\ UNCHANGED histVars

\* return g.Wait(), with the cancel of the group context that Wait makes
Wait ==
    /\ connectPc = "wait"
    /\ WaitReady(pc)
    /\ connectPc' = "returned"
    /\ result' = gErr
    /\ retAt' = now
    /\ ctxErr' = Cancel(ctxErr, Canceled)
    /\ UNCHANGED <<config, callAt, twin, now, gErr, pc, tickC, tickPhase, probes, last,
                   loopRet, mainVars, probeVars, histVars>>

Next ==
    \/ \E i \in Loops : Go(i)
    \/ \E i \in Loops : Dial(i)
    \/ \E i \in Loops : LookupEnd(i)
    \/ \E i \in Loops : DialEnd(i)
    \/ \E i \in Loops : SelectTick(i)
    \/ \E i \in Loops : SelectDone(i)
    \/ Deadline
    \/ Tick
    \/ Wait

Spec == Init /\ [][Next]_vars

\* the steps of Connect's own goroutine, and of the goroutine of loop i
ConnectStep == (\E i \in Loops : Go(i)) \/ Wait
LoopStep(i) ==
    Dial(i) \/ LookupEnd(i) \/ DialEnd(i) \/ SelectTick(i) \/ SelectDone(i)

\* the scheduler runs every goroutine that stays runnable, a dial ends, the
\* timer fires and time passes
Fairness ==
    /\ WF_vars(ConnectStep)
    /\ \A i \in 1..MaxEndpoints : WF_vars(LoopStep(i))
    /\ WF_vars(Deadline)
    /\ WF_vars(Tick)

\* one call of Connect under that fairness, on endpoints of every behaviour:
\* a port out of range, a host name nobody listens on, and a listener that
\* comes up
FairAddrs == {InvalidAddr, Named(NeverAddr), UpAddr(MaxUpAt)}
FairInit == ConnectInit(FairAddrs)

FairSpec == FairInit /\ [][Next]_vars /\ Fairness

\* the same program called with a timeout (config.timeout > 0): Connect
\* derives the context of the loops with context.WithTimeout
WithDeadlineInit == FairInit /\ config.timeout > 0
WithDeadlineSpec == WithDeadlineInit /\ [][Next]_vars /\ Fairness

\* the same program called without a timeout (config.timeout = 0): Connect
\* creates no deadline, so no timer ever fires
NoDeadlineInit == FairInit /\ config.timeout = 0

NoDeadlineNext ==
    \/ \E i \in Loops : Go(i)
    \/ \E i \in Loops : Dial(i)
    \/ \E i \in Loops : LookupEnd(i)
    \/ \E i \in Loops : DialEnd(i)
    \/ \E i \in Loops : SelectTick(i)
    \/ \E i \in Loops : SelectDone(i)
    \/ Tick
    \/ Wait

NoDeadlineSpec ==
    /\ NoDeadlineInit /\ [][NoDeadlineNext]_vars
    /\ WF_vars(ConnectStep)
    /\ \A i \in 1..MaxEndpoints : WF_vars(LoopStep(i))
    /\ WF_vars(Tick)

\* the same program against endpoints that answer every dial at once
\* (resolving, listening or refusing, as on the loopback interface): no
\* lookup and no connection attempt is pending when time passes
PromptTick == (\A i \in Loops : pc[i] \notin {"lookup", "conn"}) /\ Tick

NextPrompt ==
    \/ \E i \in Loops : Go(i)
    \/ \E i \in Loops : Dial(i)
    \/ \E i \in Loops : LookupEnd(i)
    \/ \E i \in Loops : DialEnd(i)
    \/ \E i \in Loops : SelectTick(i)
    \/ \E i \in Loops : SelectDone(i)
    \/ Deadline
    \/ PromptTick
    \/ Wait

\* the endpoints of the calls checked against prompt endpoints: a listener
\* given by name, and listeners that start at any time
PromptAddrs == {Named(UpAddr(0))} \cup {UpAddr(t) : t \in 0..MaxUpAt}
PromptInit == ConnectInit(PromptAddrs)

PromptSpec ==
    /\ PromptInit /\ [][NextPrompt]_vars
    /\ WF_vars(ConnectStep)
    /\ \A i \in 1..MaxEndpoints : WF_vars(LoopStep(i))
    /\ WF_vars(Deadline)
    /\ WF_vars(PromptTick)

\* ------------------------------------------------------------------ history
\* the same program with a record of what the loops did: the time a loop has
\* spent in its select, whether it has taken a tick while the context was
\* done, and the non-nil errors in the order in which the loops returned them
DialH(i) ==
    /\ DialBody(i)
    /\ pause' = [pause EXCEPT ![i] = 0]
    /\ late' = [late EXCEPT ![i] = @ /\ pc'[i] # "done"]
    /\ errs' = IF loopRet'[i] # Nil THEN Append(errs, loopRet'[i]) ELSE errs

LookupEndH(i) ==
    /\ LookupEndBody(i)
    /\ pause' = [pause EXCEPT ![i] = 0]
    /\ late' = [late EXCEPT ![i] = @ /\ pc'[i] # "done"]
    /\ errs' = IF loopRet'[i] # Nil THEN Append(errs, loopRet'[i]) ELSE errs

DialEndH(i) ==
    /\ DialEndBody(i)
    /\ pause' = [pause EXCEPT ![i] = 0]
    /\ late' = [late EXCEPT ![i] = @ /\ pc'[i] # "done"]
    /\ errs' = IF loopRet'[i] # Nil THEN Append(errs, loopRet'[i]) ELSE errs

SelectTickH(i) ==
    /\ SelectTickBody(i)
    /\ pause' = [pause EXCEPT ![i] = 0]
    /\ late' = [late EXCEPT ![i] = @ \/ CtxDone(ctxErr)]
    /\ UNCHANGED errs

SelectDoneH(i) ==
    /\ SelectDoneBody(i)
    /\ pause' = [pause EXCEPT ![i] = 0]
    /\ late' = [late EXCEPT ![i] = FALSE]
    /\ errs' = IF loopRet'[i] # Nil THEN Append(errs, loopRet'[i]) ELSE errs

TickH ==
    /\ TickBody
    /\ pause' = [i \in Loops |->
                    IF pc[i] = "select" THEN pause[i] + 1 ELSE pause[i]]
    /\ UNCHANGED <<late, errs>>

HistNext ==
    \/ \E i \in Loops : Go(i)
    \/ \E i \in Loops : DialH(i)
    \/ \E i \in Loops : LookupEndH(i)
    \/ \E i \in Loops : DialEndH(i)
    \/ \E i \in Loops : SelectTickH(i)
    \/ \E i \in Loops : SelectDoneH(i)
    \/ Deadline
    \/ TickH
    \/ Wait

\* the endpoints of the recorded calls: an invalid address, addresses nobody
\* listens on (IP literal and host name), a listener that is up from the
\* start and one that comes up late
HistAddrs ==
    {InvalidAddr, NeverAddr, Named(NeverAddr), UpAddr(0), UpAddr(MaxUpAt)}
HistInit == ConnectInit(HistAddrs)

HistSpec == HistInit /\ [][HistNext]_vars

\* ------------------------------------------------------------------ main
\* the whole program: the flags are parsed, main checks the configuration,
\* calls Run, which calls Connect, and exits
\* an -a value that net.SplitHostPort rejects (no port)
MalformedAddr == [kind |-> "malformed", upAt |-> 0, name |-> FALSE]
MainArgLists ==
    UNION {[1..n -> Addrs \cup {MalformedAddr}] : n \in 0..MaxMainEndpoints}

\* the error of net.SplitHostPort, and the exit status of flag.Parse on a
\* value that Set rejects (flag.ExitOnError)
SplitError == [type |-> "AddrError", src |-> 0]
ParseExit == 2

\* (s *StringList).Set(value): the value is appended if SplitHostPort
\* accepts it
Set(list, value) ==
    IF value.kind = "malformed" THEN [list |-> list, err |-> SplitError]
    ELSE [list |-> Append(list, value), err |-> Nil]

\* flag.Parse calls Set on the -a values in order and stops at the first
\* error
RECURSIVE ParseArgs(_, _)
ParseArgs(list, vals) ==
    IF vals = <<>> THEN [list |-> list, err |-> Nil]
    ELSE LET r == Set(list, Head(vals)) IN
         IF r.err # Nil THEN r ELSE ParseArgs(r.list, Tail(vals))

\* the address net.ResolveTCPAddr gives for a value that resolves: the host
\* as an IP literal
Resolved(a) == [a EXCEPT !.name = FALSE]

\* the error of net.ResolveTCPAddr (no port, a port out of range, or a host
\* name that does not resolve)
ResolveError == [type |-> "ResolveError", src |-> 0]

\* (ep *Endpoints).Set(value), the Set of the program built around App: the
\* value is resolved with net.ResolveTCPAddr, and what is appended is the
\* resolved address
EndpointsSet(list, value) ==
    IF value.kind \in {"malformed", "invalid", "unresolvable"}
    THEN [list |-> list, err |-> ResolveError]
    ELSE [list |-> Append(list, Resolved(value)), err |-> Nil]

RECURSIVE ParseEndpoints(_, _)
ParseEndpoints(list, vals) ==
    IF vals = <<>> THEN [list |-> list, err |-> Nil]
    ELSE LET r == EndpointsSet(list, Head(vals)) IN
         IF r.err # Nil THEN r ELSE ParseEndpoints(r.list, Tail(vals))

MainInit ==
    /\ config \in [timeout : (-1)..MaxTimeout, interval : 0..MaxInterval,
                   endpoints : {<<>>}, on : Policies, command : Commands]
    /\ args \in MainArgLists
    /\ now = 0
    /\ connectPc = "notcalled"
    /\ ctxErr = Nil
    /\ gErr = Nil
    /\ pc = <<>>
    /\ tickC = <<>>
    /\ tickPhase = <<>>
    /\ probes = <<>>
    /\ last = <<>>
    /\ tried = <<>>
    /\ conns = <<>>
    /\ late = <<>>
    /\ pause = <<>>
    /\ errs = <<>>
    /\ loopRet = <<>>
    /\ result = Nil
    /\ retAt = 0
    /\ callAt = 0
    /\ twin = <<>>
    /\ mainPc = "parse"
    /\ executed = FALSE
    /\ cmdErr = Nil
    /\ runErr = Nil
    /\ exitCode = NoExit

ConnectVars == <<now, ctxErr, gErr, pc, tickC, tickPhase, probes, last,
                 loopRet, result, retAt, probeVars, histVars>>

\* flag.Parse() has filled config.endpoints with r.list, or has met the
\* error r.err: a value that Set rejects ends the process with the usage
\* text
Parses(r) ==
    /\ mainPc = "parse"
    /\ config' = [config EXCEPT !.endpoints = r.list]
    /\ IF r.err # Nil
       THEN mainPc' = "exited" /\ exitCode' = ParseExit
       ELSE mainPc' = "main" /\ UNCHANGED exitCode
    /\ pc' = [i \in 1..Len(r.list) |-> "idle"]
    /\ tickC' = [i \in 1..Len(r.list) |-> FALSE]
    /\ tickPhase' = [i \in 1..Len(r.list) |-> 0]
    /\ probes' = [i \in 1..Len(r.list) |-> 0]
    /\ last' = [i \in 1..Len(r.list) |-> "none"]
    /\ tried' = [i \in 1..Len(r.list) |-> NoCall]
    /\ conns' = [i \in 1..Len(r.list) |-> 0]
    /\ late' = [i \in 1..Len(r.list) |-> FALSE]
    /\ pause' = [i \in 1..Len(r.list) |-> 0]
    /\ loopRet' = [i \in 1..Len(r.list) |-> Nil]
    /\ UNCHANGED <<now, callAt, twin, connectPc, ctxErr, gErr, errs, result, retAt,
                   args, executed, cmdErr, runErr>>

\* flag.Parse() of the program around config: the -a values go through
\* StringList.Set
Parse == Parses(ParseArgs(<<>>, args))

\* flag.Parse() of the program around App: the -a values go through
\* Endpoints.Set
ParseApp == Parses(ParseEndpoints(<<>>, args))

\* main: if err := checkConfig(); err != nil { ...; os.Exit(22) }, else Run()
\* is called, and Run calls Connect
Main ==
    /\ mainPc = "main"
    /\ IF checkConfig(config) # Nil
       THEN /\ mainPc' = "exited"
            /\ exitCode' = InvalidArgument
            /\ UNCHANGED connectPc
       ELSE /\ mainPc' = "run"
            /\ connectPc' = "launch"
            /\ UNCHANGED exitCode
    /\ UNCHANGED <<config, callAt, twin, ConnectVars, args, executed, cmdErr, runErr>>

\* Run after err := Connect(): the command is executed or not, and its
\* result c, if it is executed, replaces err
Run ==
    /\ mainPc = "run"
    /\ connectPc = "returned"
    /\ \E c \in CmdResults :
         LET ex == ExecutesCommand(config, result) IN
         /\ executed' = ex
         /\ cmdErr' = IF ex THEN c ELSE Nil
         /\ runErr' = RunResult(ex, c, result)
    /\ mainPc' = "exit"
    /\ UNCHANGED <<config, callAt, twin, connectPc, ConnectVars, args, exitCode>>

\* main after Run returned: os.Exit with the command's exit code, 1 for
\* any other error, and the normal end of main otherwise
Exit ==
    /\ mainPc = "exit"
    /\ mainPc' = "exited"
    /\ exitCode' = ExitCode(runErr)
    /\ UNCHANGED <<config, callAt, twin, connectPc, ConnectVars, args, executed, cmdErr,
                   runErr>>

MainNext ==
    \/ Parse
    \/ ParseApp
    \/ Main
    \/ \E i \in Loops : Go(i)
    \/ \E i \in Loops : Dial(i)
    \/ \E i \in Loops : LookupEnd(i)
    \/ \E i \in Loops : DialEnd(i)
    \/ \E i \in Loops : SelectTick(i)
    \/ \E i \in Loops : SelectDone(i)
    \/ Deadline
    \/ Tick
    \/ Wait
    \/ Run
    \/ Exit

MainSpec == MainInit /\ [][MainNext]_vars

\* ------------------------------------------------------------------ TryDial
\* TryDial called on its own, as TestTryDial does: a context that is live,
\* cancelled or past its deadline (ctxErr tells which) and that may end
\* while a call is under way, a dialer with any Timeout, one address behind
\* which anything may be, at any time; the caller may call it again when
\* the call has returned, at once or later
TryDialInit ==
    /\ config \in [timeout : (-1)..MaxTimeout, interval : {1},
                   endpoints : {<<a>> : a \in Addrs}, on : {"s"},
                   command : {<<>>}]
    /\ args = config.endpoints
    /\ now \in 0..MaxTime
    /\ ctxErr \in {Nil, Canceled, DeadlineExceeded}
    /\ connectPc = "notcalled"
    /\ gErr = Nil
    /\ pc = <<"idle">>
    /\ tickC = <<FALSE>>
    /\ tickPhase = <<0>>
    /\ probes = <<0>>
    /\ last = <<"none">>
    /\ tried = <<NoCall>>
    /\ conns = <<0>>
    /\ late = <<FALSE>>
    /\ pause = <<0>>
    /\ errs = <<>>
    /\ loopRet = <<Nil>>
    /\ result = Nil
    /\ retAt = 0
    /\ callAt = 0
    /\ twin = <<>>
    /\ mainPc = "trydial"
    /\ executed = FALSE
    /\ cmdErr = Nil
    /\ runErr = Nil
    /\ exitCode = NoExit

\* the call returns r to the test
TryDialDone(r) ==
    /\ pc' = <<"idle">>
    /\ last' = <<Outcome(r)>>
    /\ tried' = <<r>>
    /\ conns' = <<conns[1] + r.open>>

\* res, err := TryDial(ctx, d, addr): the call is made
CallTryDial ==
    /\ mainPc = "trydial"
    /\ pc[1] = "idle"
    /\ probes[1] # 2
    /\ probes' = <<Inc(probes[1])>>
    /\ callAt' = now
    /\ UNCHANGED twin
    /\ IF DialStarts(config.endpoints[1], 1) # Nil
       THEN TryDialDone(TryDialReturns(DialStarts(config.endpoints[1], 1)))
       ELSE /\ pc' = <<IF config.endpoints[1].name THEN "lookup" ELSE "conn">>
            /\ UNCHANGED <<last, tried, conns>>
    /\ UNCHANGED <<config, now, connectPc, ctxErr, gErr, tickC, tickPhase,
                   loopRet, result, retAt, mainVars, histVars>>

\* the lookup of the call ends
TryDialLookupEnd ==
    /\ mainPc = "trydial"
    /\ pc[1] = "lookup"
    /\ LET err == LookupEnds(ctxErr, 0, config.timeout, callAt, now,
                             config.endpoints[1], 1) IN
       IF err # Nil
       THEN TryDialDone(TryDialReturns(err))
       ELSE pc' = <<"conn">> /\ UNCHANGED <<last, tried, conns>>
    /\ UNCHANGED <<config, callAt, twin, now, connectPc, ctxErr, gErr, tickC,
                   tickPhase, probes, loopRet, result, retAt, mainVars,
                   histVars>>

\* the connection attempt of the call ends, and the call returns
TryDialDialEnd ==
    /\ mainPc = "trydial"
    /\ pc[1] = "conn"
    /\ TryDialDone(TryDialReturns(ConnectEnds(ctxErr, 0, config.timeout,
                                              callAt, now,
                                              config.endpoints[1],
                                              conns[1], 1)))
    /\ UNCHANGED <<config, callAt, twin, now, connectPc, ctxErr, gErr, tickC,
                   tickPhase, probes, loopRet, result, retAt, mainVars,
                   histVars>>

\* the context of the test ends: cancel() is called, or its deadline passes
CtxEnds ==
    /\ mainPc = "trydial"
    /\ ctxErr = Nil
    /\ ctxErr' \in {Canceled, DeadlineExceeded}
    /\ UNCHANGED <<config, callAt, twin, now, connectPc, gErr, pc, tickC, tickPhase,
                   probes, last, loopRet, result, retAt, mainVars, probeVars,
                   histVars>>

\* the call under way moves on at this instant: its context is done, or a
\* listener is there to accept
CallEndsNow ==
    \/ /\ pc[1] \in {"lookup", "conn"}
       /\ DialCtxDone(ctxErr, 0, config.timeout, callAt, now)
    \/ /\ pc[1] = "conn"
       /\ config.endpoints[1].kind = "up" /\ now >= config.endpoints[1].upAt

\* time passes, between two calls or while a call waits
Elapse ==
    /\ mainPc = "trydial"
    /\ now < MaxTime
    /\ ~CallEndsNow
    /\ now' = now + 1
    /\ UNCHANGED <<config, callAt, twin, connectPc, ctxErr, gErr, pc, tickC,
                   tickPhase, probes, last, loopRet, result, retAt, mainVars,
                   probeVars, histVars>>

TryDialNext ==
    \/ CallTryDial
    \/ TryDialLookupEnd
    \/ TryDialDialEnd
    \/ CtxEnds
    \/ Elapse

TryDialSpec == TryDialInit /\ [][TryDialNext]_vars

\* ------------------------------------------------------------------ two runs
\* Run executed twice, against the same configuration but for config.quiet
\* and config.verbose, the same endpoints and the same schedule: the two runs
\* take every step together.  A run is a record of the state of Run and
\* Connect as above, of config.quiet and config.verbose, and of what the run
\* has printed (out).
FlagSettings == [quiet : BOOLEAN, verbose : BOOLEAN]
\* -q alone
QuietRun == [quiet |-> TRUE, verbose |-> FALSE]

\* a line of output: what it says and the endpoint it is about (0: none)
Line(text, i) == [text |-> text, addr |-> i]

\* printError: if !config.quiet { fmt.Fprintf(os.Stderr, ...) }
printError(run, line) ==
    [run EXCEPT !.out = IF ~run.quiet THEN @ \cup {line} ELSE @]

\* logInfo: if !config.quiet { log.Printf(...) }
logInfo(run, line) ==
    [run EXCEPT !.out = IF ~run.quiet THEN @ \cup {line} ELSE @]

\* logDebug: if !config.quiet && config.verbose { log.Printf(...) }
logDebug(run, line) ==
    [run EXCEPT !.out = IF ~run.quiet /\ run.verbose THEN @ \cup {line} ELSE @]

\* the run when Run calls Connect
NewRun(flags) ==
    [quiet |-> flags.quiet, verbose |-> flags.verbose,
     runPc |-> "connect", connectPc |-> "launch",
     ctxErr |-> Nil, gErr |-> Nil,
     pc |-> [i \in Loops |-> "idle"],
     tickC |-> [i \in Loops |-> FALSE],
     tickPhase |-> [i \in Loops |-> 0],
     probes |-> [i \in Loops |-> 0],
     last |-> [i \in Loops |-> "none"],
     tried |-> [i \in Loops |-> NoCall],
     conns |-> [i \in Loops |-> 0],
     loopRet |-> [i \in Loops |-> Nil],
     result |-> Nil, retAt |-> 0,
     executed |-> FALSE, cmdErr |-> Nil, runErr |-> Nil,
     out |-> {}]

\* g.Go(func() error { ticker := time.NewTicker(config.interval); ...;
\* logDebug("connecting to %s...", addr)
GoReady(run, i) ==
    /\ i \in Loops
    /\ run.connectPc = "launch"
    /\ run.pc[i] = "idle"
    /\ CanLaunch(run.pc, i)
GoOf(run, i) ==
    IF NewTickerPanics(config.interval)
    THEN [run EXCEPT !.pc = [j \in Loops |-> "dead"],
                     !.connectPc = "panicked", !.runPc = "exited"]
    ELSE logDebug([run EXCEPT !.pc[i] = "dial",
                              !.connectPc = IF i = N THEN "wait" ELSE "launch"],
                  Line("connecting", i))

\* the loop function returns err
LoopReturnOf(run, i, err) ==
    [run EXCEPT !.pc[i] = "done",
                !.loopRet[i] = err,
                !.tickC[i] = FALSE,
                !.tickPhase[i] = 0,
                !.gErr = IF err # Nil THEN ErrOnce(@, err) ELSE @,
                !.ctxErr = GroupCancel(@, err)]

\* faulty variant: the return after a probe that connected is inside the
\* test of config.quiet, so a quiet run pauses and probes again
LoopConnectedIfNotQuiet(run, i) ==
    IF run.quiet THEN [run EXCEPT !.pc[i] = "select"]
    ELSE LoopReturnOf(logInfo(run, Line("connected", i)), i, Nil)

\* if res { logInfo("successfully connected to %s", addr); return nil }
LoopConnected(run, i) ==
    LoopReturnOf(logInfo(run, Line("connected", i)), i, Nil)

\* what TryDial prints once d.DialContext has returned err: the error, or
\* the error of conn.Close() if there is one
TryDialPrints(run, i, err, closeErr) ==
    IF err # Nil THEN logDebug(run, Line("dial error", i))
    ELSE IF closeErr THEN printError(run, Line("close error", i))
    ELSE run

\* res, err := TryDial(ctx, d, addr) has returned r: the branches on it
AfterTryDialOf(run, i, r) ==
    LET s == [run EXCEPT !.last[i] = Outcome(r),
                         !.tried[i] = r,
                         !.conns[i] = @ + r.open] IN
    IF r.err # Nil THEN LoopReturnOf(s, i, r.err)
    ELSE IF r.res THEN LoopConnected(s, i)
    ELSE [s EXCEPT !.pc[i] = "select"]

\* the loop calls TryDial, which calls d.DialContext
DialReady(run, i) == i \in Loops /\ run.pc[i] = "dial"
DialOf(run, i) ==
    LET s == [run EXCEPT !.probes[i] = Inc(@)]
        err == DialStarts(config.endpoints[i], i) IN
    IF err # Nil
    THEN AfterTryDialOf(TryDialPrints(s, i, err, FALSE), i,
                        TryDialReturns(err))
    ELSE [s EXCEPT !.pc[i] = IF config.endpoints[i].name
                             THEN "lookup" ELSE "conn"]

\* the lookup of the loop's dial ends
LookupEndReady(run, i) == i \in Loops /\ run.pc[i] = "lookup"
LookupEndOf(run, i) ==
    LET err == LookupEnds(run.ctxErr, 0, config.timeout, now, now,
                          config.endpoints[i], i) IN
    IF err # Nil
    THEN AfterTryDialOf(TryDialPrints(run, i, err, FALSE), i,
                        TryDialReturns(err))
    ELSE [run EXCEPT !.pc[i] = "conn"]

\* the connection attempt of the loop's dial ends, and TryDial returns;
\* closeErr tells whether conn.Close() reports an error
DialEndReady(run, i) == i \in Loops /\ run.pc[i] = "conn"
DialEndOf(run, i, closeErr) ==
    LET err == ConnectEnds(run.ctxErr, CtxDeadline(config), config.timeout,
                           now, now, config.endpoints[i], run.conns[i], i) IN
    AfterTryDialOf(TryDialPrints(run, i, err, closeErr), i,
                   TryDialReturns(err))

\* select { case <-ticker.C: break
SelectTickReady(run, i) ==
    i \in Loops /\ run.pc[i] = "select" /\ run.tickC[i]
SelectTickOf(run, i) == [run EXCEPT !.tickC[i] = FALSE, !.pc[i] = "dial"]

\* select { case <-ctx.Done(): return ctx.Err()
SelectDoneReady(run, i) ==
    i \in Loops /\ run.pc[i] = "select" /\ CtxDone(run.ctxErr)
SelectDoneOf(run, i) == LoopReturnOf(run, i, run.ctxErr)

\* the timer of context.WithTimeout(ctx, config.timeout) fires
DeadlineReady(run) ==
    /\ run.connectPc \in {"launch", "wait"}
    /\ config.timeout > 0
    /\ now >= config.timeout
    /\ run.ctxErr = Nil
DeadlineOf(run) == [run EXCEPT !.ctxErr = DeadlineExceeded]

\* return g.Wait()
WaitReadyOf(run) == run.connectPc = "wait" /\ WaitReady(run.pc)
WaitOf(run) ==
    [run EXCEPT !.connectPc = "returned",
                !.result = run.gErr,
                !.retAt = now,
                !.ctxErr = Cancel(@, Canceled)]

\* a dial of the run moves on at this instant
DialEndsNowOf(run, i) ==
    \/ run.pc[i] = "dial"
    \/ /\ run.pc[i] = "lookup"
       /\ DialCtxDone(run.ctxErr, 0, config.timeout, now, now)
    \/ /\ run.pc[i] = "conn"
       /\ DialCtxDone(run.ctxErr, CtxDeadline(config), config.timeout, now,
                      now)
    \/ /\ run.pc[i] = "conn"
       /\ config.endpoints[i].kind = "up" /\ now >= config.endpoints[i].upAt

\* some goroutine or timer of the run is ready to run at this instant
UrgentOf(run) ==
    \/ \E i \in Loops : GoReady(run, i)
    \/ \E i \in Loops : DialEndsNowOf(run, i)
    \/ \E i \in Loops :
          run.pc[i] = "select" /\ (run.tickC[i] \/ CtxDone(run.ctxErr))
    \/ DeadlineReady(run)
    \/ WaitReadyOf(run)

\* one unit of time passes in the run
TickReady(run) == run.connectPc \in {"launch", "wait"} /\ ~UrgentOf(run)
TickOf(run) ==
    [run EXCEPT
       !.tickPhase = [i \in Loops |->
                         IF run.pc[i] \in {"dial", "lookup", "conn", "select"}
                         THEN (run.tickPhase[i] + 1) % config.interval
                         ELSE run.tickPhase[i]],
       !.tickC = [i \in Loops |->
                     IF /\ run.pc[i] \in {"dial", "lookup", "conn", "select"}
                        /\ run.tickPhase[i] + 1 = config.interval
                     THEN TRUE ELSE run.tickC[i]]]

\* errors.Is(err, context.DeadlineExceeded) in Run.  The *net.DNSError of a
\* lookup that the deadline cut short wraps the error of the context when
\* the program is built with Go 1.23 or later, and wraps nothing when it is
\* built with an earlier release (Go 1.22, the first with the loop variables
\* per iteration that Connect relies on): is tells whether err, if it is a
\* DNS error, reports the deadline in this build.
ErrorsIsDeadlineExceeded(err, is) ==
    err = DeadlineExceeded \/ (err.type = "DNSError" /\ is)

\* Run after err := Connect(): the error is printed, the command is executed
\* or not, and its result c, if it is executed, replaces err
RunReady(run) == run.runPc = "connect" /\ run.connectPc = "returned"
RunOf(run, c, is) ==
    LET s == IF run.result = Nil THEN run
             ELSE IF ErrorsIsDeadlineExceeded(run.result, is)
                  THEN printError(run, Line("timeout error", 0))
                  ELSE printError(run, Line("error", 0))
        ex == ExecutesCommand(config, run.result) IN
    [s EXCEPT !.executed = ex,
              !.cmdErr = IF ex THEN c ELSE Nil,
              !.runErr = RunResult(ex, c, run.result),
              !.runPc = "returned"]

\* both runs take a step, which the first is ready for: ready[k] tells
\* whether run k is ready for it and runs[k] is run k after it (a run that
\* is not ready stays where it is)
Together(ready, runs) ==
    /\ mainPc = "twin"
    /\ ready[1]
    /\ twin' = [k \in 1..2 |-> IF ready[k] THEN runs[k] ELSE twin[k]]

\* what a step of the two runs leaves alone, the clock apart
soloVars ==
    <<config, connectPc, ctxErr, gErr, pc, tickC, tickPhase, probes, last,
      loopRet, result, retAt, callAt, mainVars, probeVars, histVars>>

TwinGo(i) ==
    /\ Together([k \in 1..2 |-> GoReady(twin[k], i)],
                [k \in 1..2 |-> GoOf(twin[k], i)])
    /\ UNCHANGED <<now, soloVars>>
TwinDial(i) ==
    /\ Together([k \in 1..2 |-> DialReady(twin[k], i)],
                [k \in 1..2 |-> DialOf(twin[k], i)])
    /\ UNCHANGED <<now, soloVars>>
TwinLookupEnd(i) ==
    /\ Together([k \in 1..2 |-> LookupEndReady(twin[k], i)],
                [k \in 1..2 |-> LookupEndOf(twin[k], i)])
    /\ UNCHANGED <<now, soloVars>>
TwinDialEnd(i) ==
    /\ \E closeErr \in BOOLEAN :
          Together([k \in 1..2 |-> DialEndReady(twin[k], i)],
                   [k \in 1..2 |-> DialEndOf(twin[k], i, closeErr)])
    /\ UNCHANGED <<now, soloVars>>
TwinSelectTick(i) ==
    /\ Together([k \in 1..2 |-> SelectTickReady(twin[k], i)],
                [k \in 1..2 |-> SelectTickOf(twin[k], i)])
    /\ UNCHANGED <<now, soloVars>>
TwinSelectDone(i) ==
    /\ Together([k \in 1..2 |-> SelectDoneReady(twin[k], i)],
                [k \in 1..2 |-> SelectDoneOf(twin[k], i)])
    /\ UNCHANGED <<now, soloVars>>
TwinDeadline ==
    /\ Together([k \in 1..2 |-> DeadlineReady(twin[k])],
                [k \in 1..2 |-> DeadlineOf(twin[k])])
    /\ UNCHANGED <<now, soloVars>>
TwinTick ==
    /\ Together([k \in 1..2 |-> TickReady(twin[k])],
                [k \in 1..2 |-> TickOf(twin[k])])
    /\ now' = Min(now + 1, MaxTime)
    /\ UNCHANGED soloVars
TwinWait ==
    /\ Together([k \in 1..2 |-> WaitReadyOf(twin[k])],
                [k \in 1..2 |-> WaitOf(twin[k])])
    /\ UNCHANGED <<now, soloVars>>
TwinRun ==
    /\ mainPc = "twin"
    /\ \E c \in CmdResults,
          is \in IF twin[1].result.type = "DNSError" THEN BOOLEAN ELSE {FALSE} :
          Together([k \in 1..2 |-> RunReady(twin[k])],
                   [k \in 1..2 |-> RunOf(twin[k], c, is)])
    /\ UNCHANGED <<now, soloVars>>

TwinNext ==
    \/ \E i \in Loops : TwinGo(i)
    \/ \E i \in Loops : TwinDial(i)
    \/ \E i \in Loops : TwinLookupEnd(i)
    \/ \E i \in Loops : TwinDialEnd(i)
    \/ \E i \in Loops : TwinSelectTick(i)
    \/ \E i \in Loops : TwinSelectDone(i)
    \/ TwinDeadline
    \/ TwinTick
    \/ TwinWait
    \/ TwinRun

\* the endpoints of the two runs: a port out of range, a host name nobody
\* listens on, and a listener that comes up before the longest timeout
TwinAddrs == {InvalidAddr, Named(NeverAddr), UpAddr(MaxUpAt - 1)}

\* the first run prints nothing, and the second has one of the three other
\* settings of the two flags; the command is there, to run after a success
\* and not after a failure
TwinInit ==
    /\ config \in [timeout : (-1)..MaxTimeout, interval : 0..MaxInterval,
                   endpoints : EndpointLists(TwinAddrs), on : {"s"},
                   command : {<<"touch">>}]
    /\ args = config.endpoints
    /\ now = 0
    /\ twin \in {<<NewRun(QuietRun), NewRun(flags)>> :
                    flags \in FlagSettings \ {QuietRun}}
    /\ connectPc = "notcalled"
    /\ ctxErr = Nil
    /\ gErr = Nil
    /\ pc = <<>>
    /\ tickC = <<>>
    /\ tickPhase = <<>>
    /\ probes = <<>>
    /\ last = <<>>
    /\ tried = <<>>
    /\ conns = <<>>
    /\ late = <<>>
    /\ pause = <<>>
    /\ errs = <<>>
    /\ loopRet = <<>>
    /\ result = Nil
    /\ retAt = 0
    /\ callAt = 0
    /\ mainPc = "twin"
    /\ executed = FALSE
    /\ cmdErr = Nil
    /\ runErr = Nil
    /\ exitCode = NoExit

TwinSpec == TwinInit /\ [][TwinNext]_vars

\* ================================================================== properties
Returned == connectPc = "returned"
Kinds == {config.endpoints[i].kind : i \in Loops}

\* C1: Connect returns nil exactly if every loop ended with a Connected
\* probe; if some loop ended with an Invalid error or by the context being
\* done, Connect returns a non-nil error.
C1_NilIffAllConnected ==
    Returned =>
        /\ (result = Nil) <=> (\A i \in Loops : last[i] = "Connected")
        /\ (\E i \in Loops : loopRet[i] # Nil) => result # Nil

\* one loop connected, its sibling ended on the deadline, Connect returned
C1_Witness ==
    /\ Returned /\ N = 2 /\ result # Nil
    /\ \E i, j \in Loops : last[i] = "Connected" /\ loopRet[j] = DeadlineExceeded

\* C9: Connect never has returned while a loop is still dialling or pausing.
C9_ReturnsAfterAllLoops ==
    Returned => \A i \in Loops : pc[i] = "done"

\* Connect returned an AddrError after waiting for the cancelled sibling
C9_Witness ==
    /\ Returned /\ N = 2 /\ result.type = "AddrError"
    /\ \E j \in Loops : loopRet[j] = Canceled /\ probes[j] >= 1

\* C6: Connect returns nil, the deadline error, or the address error or DNS
\* error of an Invalid probe of one of its endpoints; never context.Canceled.
C6_ReturnValues ==
    Returned =>
        /\ result.type \in {"nil", "DeadlineExceeded", "AddrError", "DNSError"}
        /\ result.type \in {"AddrError", "DNSError"} =>
               /\ result.src \in Loops
               /\ last[result.src] = "Invalid"
               /\ tried[result.src].err = result
               /\ loopRet[result.src] = result
        /\ result # Canceled

\* a sibling returned context.Canceled, and Connect returned the AddrError
C6_Witness ==
    /\ Returned /\ result.type = "AddrError"
    /\ \E j \in Loops : loopRet[j] = Canceled /\ config.endpoints[j].kind = "never"
    /\ config.timeout = 0

\* C4: a list of one syntactically invalid address, the retry interval being
\* positive: Connect returns that AddrError after exactly one probe, at once
\* (before any time passes) and without the loop ever pausing, for every
\* timeout; and an invalid address is refused by its one probe whatever state
\* the shared context is in.
SingleInvalid ==
    N = 1 /\ config.endpoints[1].kind = "invalid" /\ config.interval > 0
C4_InvalidReturnsAtOnce ==
    /\ SingleInvalid =>
           /\ now = 0
           /\ ~Returned => Urgent
           /\ Returned => result = AddrError(1) /\ probes[1] = 1 /\ retAt = 0
    /\ \A i \in Loops : config.endpoints[i].kind = "invalid" =>
           /\ pc[i] # "select"
           /\ probes[i] <= 1
           /\ pc[i] = "done" => loopRet[i] = AddrError(i) /\ probes[i] = 1

\* the single invalid address was probed and Connect returned, under a deadline
C4_Witness ==
    /\ SingleInvalid /\ config.timeout > 0
    /\ Returned /\ result = AddrError(1) /\ last[1] = "Invalid"

\* the first instant at or after t at which a loop probes: time 0 or a tick
\* (the interval being positive)
FirstProbe(t) == ((t + config.interval - 1) \div config.interval) * config.interval
\* time t lies before the shared deadline, or the timeout is 0 and there is
\* none
BeforeDeadline(t) == config.timeout = 0 \/ t < config.timeout
AllUp == \A i \in Loops : config.endpoints[i].kind = "up"

\* C2 as stated: every address becomes connectable before the shared deadline
\* and stays so; then Connect returns no error, each endpoint probed.
C2_Original ==
    (/\ config.interval > 0
     /\ AllUp
     /\ \A i \in Loops : BeforeDeadline(config.endpoints[i].upAt)
     /\ Returned)
    => result = Nil /\ \A i \in Loops : probes[i] >= 1

\* C2 (amended): every address is connectable at one of its loop's probe
\* instants (time 0 or a later retry tick) that lies before the shared deadline,
\* or there is no deadline; then, dials being answered at once, Connect does
\* return, with no error, and each endpoint was probed at least once.
C2_Pre ==
    /\ config.interval > 0
    /\ AllUp
    /\ \A i \in Loops : BeforeDeadline(FirstProbe(config.endpoints[i].upAt))
C2_Amended ==
    /\ [](C2_Pre /\ Returned => result = Nil /\ \A i \in Loops : probes[i] >= 1)
    /\ (C2_Pre ~> (Returned /\ result = Nil))

\* two listeners that come up late, under a deadline: Connect returned nil
\* after retrying
C2_Witness ==
    /\ C2_Pre /\ N = 2 /\ config.timeout > 0
    /\ \A i \in Loops : config.endpoints[i].upAt >= 1 /\ probes[i] >= 2
    /\ Returned /\ result = Nil

\* C3 as stated: under a deadline and with a positive retry interval, with
\* an endpoint that never accepts a connection and no endpoint whose address
\* is invalid or does not resolve, what Connect returns is a deadline
\* error, one that errors.Is(err, context.DeadlineExceeded) reports whatever
\* Go release the program is built with, and it returns it when the deadline
\* has elapsed, not before.
C3_Pre ==
    /\ config.timeout > 0 /\ config.interval > 0
    /\ "never" \in Kinds
    /\ "invalid" \notin Kinds /\ "unresolvable" \notin Kinds
SomeInvalid == \E i \in Loops : last[i] = "Invalid"
C5_InvalidCancelsAll ==
    /\ [](SomeInvalid => CtxDone(ctxErr))
    /\ (SomeInvalid ~>
           (Returned /\ result # Nil /\ \A i \in Loops : pc[i] = "done"))

\* no deadline, a permanently unreachable sibling that had started retrying:
\* it was cancelled and Connect returned
C5_Witness ==
    /\ config.timeout = 0 /\ N = 2 /\ Returned /\ result # Nil
    /\ \E i, j \in Loops :
          /\ last[i] = "Invalid"
          /\ config.endpoints[j].kind = "never" /\ loopRet[j] = Canceled

\* C7: under a deadline, the retry interval being positive, every loop
\* terminates and Connect returns, whatever the endpoints do.
C7_Terminates ==
    (config.timeout > 0 /\ config.interval > 0)
        ~> (Returned /\ \A i \in Loops : pc[i] = "done")

\* both loops retried and ended on the deadline
C7_Witness ==
    /\ config.timeout > 0 /\ N = 2 /\ Returned
    /\ \A i \in Loops : loopRet[i] = DeadlineExceeded /\ probes[i] >= 2

\* C8: no deadline, a positive retry interval, and no address that is
\* invalid or does not resolve: the loop of a permanently unreachable
\* endpoint never terminates, it probes again and again, and Connect never
\* returns.
C8_Pre(i) ==
    /\ i \in Loops
    /\ config.timeout = 0 /\ config.interval > 0
    /\ "invalid" \notin Kinds /\ "unresolvable" \notin Kinds
    /\ config.endpoints[i].kind = "never"
C8_RetriesForever ==
    /\ [](\A i \in Loops : C8_Pre(i) => pc[i] # "done" /\ ~Returned)
    /\ \A i \in 1..MaxEndpoints : C8_Pre(i) => []<><<Dial(i)>>_vars

\* the sibling connected; the unreachable endpoint is being probed once more
C8_Witness ==
    \E i, j \in Loops :
        /\ C8_Pre(i) /\ pc[i] = "dial" /\ probes[i] >= 2
        /\ last[j] = "Connected"

\* C10 as stated: two endpoints that become connectable at different times
\* within the timeout; Connect returns no error, within one retry interval
\* of the later time.
TwoUp == N = 2 /\ AllUp /\ config.endpoints[1].upAt # config.endpoints[2].upAt
Later == Max(config.endpoints[1].upAt, config.endpoints[2].upAt)
Earlier == Min(config.endpoints[1].upAt, config.endpoints[2].upAt)
C10_Original ==
    (config.interval > 0 /\ TwoUp /\ BeforeDeadline(Later) /\ Returned) =>
        result = Nil /\ retAt >= Later /\ retAt < Later + config.interval

\* C10 (amended): two endpoints that become connectable at different times,
\* each at a probe instant before the deadline (or without deadline), dials
\* being answered at once: each loop connects at its own first probe instant
\* at or after its endpoint's time, whatever the other loop is doing, and
\* Connect returns no error at the later of the two instants, which is less
\* than one retry interval after the later time.
C10_Pre ==
    config.interval > 0 /\ TwoUp /\ BeforeDeadline(FirstProbe(Later))
C10_Amended ==
    C10_Pre =>
        /\ \A i \in Loops :
               /\ now > FirstProbe(config.endpoints[i].upAt) =>
                      pc[i] = "done" /\ last[i] = "Connected"
               /\ pc[i] = "done" => loopRet[i] = Nil
        /\ now > FirstProbe(Later) => Returned
        /\ Returned =>
               /\ result = Nil
               /\ retAt = FirstProbe(Later)
               /\ retAt < Later + config.interval

\* the second-listed endpoint came up first; Connect returned at the later
\* time, before the sum of the two
C10_Witness ==
    /\ C10_Pre /\ Returned /\ result = Nil
    /\ Earlier >= 1 /\ config.endpoints[2].upAt = Earlier
    /\ retAt < Earlier + Later

\* ------------------------------------------------------------------ Run
RunReturned == mainPc \in {"exit", "exited"} /\ connectPc = "returned"

\* C11: when Run has returned, the command was executed exactly if the
\* command line is non-empty and the policy matches the outcome of Connect:
\* 's' and nil, 'f' and an error, or 'any'; until then it is not executed.
C11_CommandIffPolicy ==
    /\ ~RunReturned => ~executed
    /\ RunReturned =>
          (executed <=>
             /\ config.command # <<>>
             /\ \/ config.on = "s" /\ result = Nil
                \/ config.on = "f" /\ result # Nil
                \/ config.on = "any")

\* policy 's', a command, and Connect timed out: the command was not run
C11_Witness ==
    /\ RunReturned
    /\ config.on = "s" /\ config.command # <<>>
    /\ result = DeadlineExceeded
    /\ ~executed

\* C12: Run returns what cmd.Run() returned whenever the command was
\* executed, and the error of Connect unchanged whenever it was not.
C12_RunResult ==
    RunReturned =>
        /\ executed => runErr = cmdErr
        /\ ~executed => runErr = result /\ cmdErr = Nil

\* policy 'f', Connect failed, the command ran and succeeded: Run returns nil
C12_Witness ==
    /\ RunReturned
    /\ config.on = "f" /\ result # Nil
    /\ executed /\ cmdErr = Nil /\ runErr = Nil

\* ------------------------------------------------------------------ checkConfig
\* flag.Parse has returned: main is at or past checkConfig (flag.Parse does
\* not return when Set rejects a value: it ends the process)
ParseFailed ==
    mainPc = "exited" /\ exitCode = ParseExit /\ connectPc = "notcalled"
Parsed == mainPc # "parse" /\ ~ParseFailed

\* C13: checkConfig returns an error exactly if the endpoint list is empty
\* (that error first) or the policy is none of 's', 'f', 'any'; and then,
\* once the flags are parsed, the program exits with code 22 and neither
\* Connect nor the command runs.
C13_InvalidUsage ==
    /\ (checkConfig(config) # Nil) <=>
          (config.endpoints = <<>> \/ config.on \notin {"s", "f", "any"})
    /\ config.endpoints = <<>> => checkConfig(config) = NoEndpoints
    /\ Parsed /\ checkConfig(config) # Nil =>
          /\ mainPc \in {"main", "exited"}
          /\ mainPc = "exited" => exitCode = InvalidArgument
          /\ connectPc = "notcalled"
          /\ \A i \in Loops : pc[i] = "idle" /\ probes[i] = 0
          /\ ~executed

\* endpoints and a command are given, the policy token is unknown, and the
\* program has exited with 22
C13_Witness ==
    /\ Parsed /\ config.endpoints # <<>> /\ config.command # <<>>
    /\ config.on = "x"
    /\ mainPc = "exited" /\ exitCode = InvalidArgument

\* ------------------------------------------------------------------ TryDial
\* a call of TryDial returns in this step
TryDialReturn ==
    (CallTryDial \/ TryDialLookupEnd \/ TryDialDialEnd) /\ pc'[1] = "idle"

\* C14 as stated: a TryDial call makes exactly one dial and classifies its
\* result totally: success gives (true, nil); the failure of an address that
\* is invalid or does not resolve gives (false, err) with the address error
\* or the DNS error; every other failure, that of an address which is valid
\* and resolves (refused or unanswered, timeout, cancelled context), gives
\* (false, nil).
Resolvable == config.endpoints[1].kind \notin {"invalid", "unresolvable"}
C14_Original ==
    [][TryDialReturn =>
         /\ tried'[1].dials = 1
         /\ tried'[1].res => tried'[1].err = Nil /\ last'[1] = "Connected"
         /\ ~Resolvable =>
               /\ ~tried'[1].res /\ last'[1] = "Invalid"
               /\ tried'[1].err.type \in {"AddrError", "DNSError"}
         /\ Resolvable /\ ~tried'[1].res =>
               tried'[1].err = Nil /\ last'[1] = "Unreachable"]_vars

\* ------------------------------------------------------------------ select
\* C15 as stated: once the context is done, a loop that is in the select
\* takes no tick any more, pending or not, and so starts no other probe; and
\* a loop that has paused returns nil, after a probe that connected, or the
\* context's cancellation cause.
C15_Original ==
    \A i \in Loops :
        /\ ~late[i]
        /\ pc[i] = "done" /\ probes[i] >= 2 =>
              loopRet[i] \in {Nil, Canceled, DeadlineExceeded}

\* ------------------------------------------------------------------ ticker
\* C16 as stated: a loop in the select that has a tick to take, and so
\* probes again at this instant, has paused for a whole interval
C16_Original ==
    \A i \in Loops : pc[i] = "select" /\ tickC[i] => pause[i] >= config.interval

\* C16: the pause after an Unreachable outcome ends with the next tick of
\* the loop's ticker, which fires every interval from the start of the loop
\* whatever the loop does: the pause never exceeds one interval, without a
\* tick it is shorter than one, and the probe after it starts either at once
\* (the tick came during the preceding probe) or at a multiple of the interval.
C16_Amended ==
    \A i \in Loops :
        /\ pc[i] = "select" => pause[i] <= config.interval
        /\ pc[i] = "select" /\ ~tickC[i] => pause[i] < config.interval
        /\ pc[i] = "select" /\ tickC[i] =>
              \/ pause[i] = 0
              \/ now % config.interval = 0
              \/ now = MaxTime

\* a probe lasted beyond a tick and ended Unreachable while the context is
\* live: the loop is in the select with the tick pending and no time paused
C16_Witness ==
    \E i \in Loops :
        /\ pc[i] = "select" /\ tickC[i] /\ pause[i] = 0
        /\ last[i] = "Unreachable" /\ now > 0 /\ ctxErr = Nil

\* ------------------------------------------------------------------ errgroup
\* the first of the errors the loops returned, nil if there is none
FirstErr == IF errs = <<>> THEN Nil ELSE Head(errs)

\* C17: the group's error is at every moment the first non-nil error that a
\* loop returned, in the order of the returns, and is what Connect returns;
\* once set it never changes, and once the context is done its error never
\* changes either, whatever is cancelled later.
C17_FirstErrorStays ==
    /\ [](gErr = FirstErr /\ (Returned => result = FirstErr))
    /\ [][gErr # Nil => gErr' = gErr]_vars
    /\ [][ctxErr # Nil => ctxErr' = ctxErr]_vars

\* both addresses are invalid, the second loop returned first: Connect
\* returned the error of the second, the error of the first came too late
C17_Witness ==
    /\ Returned
    /\ errs = <<AddrError(2), AddrError(1)>>
    /\ result = AddrError(2)

\* ------------------------------------------------------------------ terminal outcomes
\* C18: a loop whose latest probe was Connected or Invalid has returned, and
\* a loop that has returned stays so: it makes no further probe, and its
\* outcome and its return value stay; so a probe that connects is the loop's
\* last, and each entry connects at most once.
C18_TerminalOutcome ==
    /\ [](\A i \in Loops : last[i] \in {"Connected", "Invalid"} => pc[i] = "done")
    /\ [][\A i \in Loops :
            pc[i] = "done" =>
                /\ pc'[i] = "done"
                /\ probes'[i] = probes[i] /\ tried'[i] = tried[i]
                /\ last'[i] = last[i] /\ loopRet'[i] = loopRet[i]]_vars
    /\ [][\A i \in Loops :
            (probes'[i] # probes[i]) \/ (pc[i] = "dial" /\ pc'[i] # "dial")
                => last[i] \notin {"Connected", "Invalid"}]_vars

\* an entry connected at its second probe and its loop has returned, while
\* the loop of a sibling that nobody listens on is still in its select
C18_Witness ==
    \E i, j \in Loops :
        /\ last[i] = "Connected" /\ pc[i] = "done" /\ probes[i] = 2
        /\ pc[j] = "select" /\ ~Returned

\* ------------------------------------------------------------------ connections
\* the context of the call under way is live, and the dialer's deadline for
\* it has not passed
CanDial == ~DialCtxDone(ctxErr, 0, config.timeout, callAt, now)

\* C19: whenever TryDial has returned, and while it runs, no connection that
\* a probe opened is open; and a call that follows a call which connected,
\* its context still allowing the dial when it ends, connects again.
C19_ProbeLeavesNothing ==
    /\ [](\A i \in Loops : conns[i] = 0)
    /\ [][TryDialReturn /\ last[1] = "Connected" /\ CanDial
            => last'[1] = "Connected" /\ tried'[1].res /\ conns'[1] = 0]_vars

\* a listening address was probed twice in a row under a live context with
\* no deadline: both probes connected and no connection is open
C19_Witness ==
    /\ mainPc = "trydial"
    /\ config.endpoints[1] = UpAddr(0) /\ config.timeout = 0 /\ ctxErr = Nil
    /\ probes[1] = 2 /\ last[1] = "Connected" /\ conns[1] = 0

\* ------------------------------------------------------------------ one loop per entry
\* C21: Connect runs one loop for each index of config.endpoints, equal
\* entries included, and launches none twice; a loop returns only after it
\* has called TryDial, so when Connect has returned every entry's loop has
\* returned and has called TryDial (and with it d.DialContext) at least once,
\* also when the context was done before the loop's first call.
C21_EveryEntryProbed ==
    /\ [](DOMAIN pc = 1..Len(config.endpoints))
    /\ [](Returned =>
            \A i \in Loops :
                pc[i] = "done" /\ probes[i] >= 1 /\ tried[i].dials = 1)
    /\ [][\A i \in Loops :
            /\ pc[i] # "idle" => pc'[i] # "idle"
            /\ pc'[i] = "done" => probes'[i] >= 1]_vars

\* Connect has returned; the first entry did not parse and its loop's error
\* cancelled the context before the loop of the second entry, on which a
\* listener was up from the start, made its only call: the call did not
\* connect and the loop returned the cause of the cancellation
C21_Witness ==
    /\ Returned /\ mainPc = "connect"
    /\ N = 2
    /\ config.endpoints[1] = InvalidAddr /\ config.endpoints[2] = UpAddr(0)
    /\ probes[2] = 1 /\ tried[2].dials = 1 /\ ~tried[2].res
    /\ loopRet[2] = Canceled

\* ------------------------------------------------------------------ quiet, verbose
\* the state of a run but for config.quiet, config.verbose and what the run
\* has printed: where Run, Connect and every loop stand, the probes made and
\* their outcomes, the errors and what was returned
Control(run) ==
    [runPc |-> run.runPc, connectPc |-> run.connectPc,
     ctxErr |-> run.ctxErr, gErr |-> run.gErr,
     pc |-> run.pc, tickC |-> run.tickC, tickPhase |-> run.tickPhase,
     probes |-> run.probes, last |-> run.last, tried |-> run.tried,
     conns |-> run.conns, loopRet |-> run.loopRet,
     result |-> run.result, retAt |-> run.retAt,
     executed |-> run.executed, cmdErr |-> run.cmdErr, runErr |-> run.runErr]

\* C20: two runs of Run that differ only in config.quiet and config.verbose,
\* against the same endpoints and under the same schedule, are at every
\* moment in the same state but for what they have printed: every loop is
\* at the same place in both, with the same number of probes made and the
\* same outcome of the last one, the command is executed or not alike, and
\* Connect and Run return the same values at the same time.
C20_FlagsNeverAffectControl ==
    mainPc = "twin" => Control(twin[1]) = Control(twin[2])

\* a quiet run and a verbose one have both returned from Run after a timeout:
\* an endpoint was probed more than once and another connected, the verbose
\* run has printed its lines and the quiet run nothing
C20_Witness ==
    /\ mainPc = "twin"
    /\ twin[1].runPc = "returned" /\ twin[2].runPc = "returned"
    /\ twin[1].quiet /\ ~twin[2].quiet /\ twin[2].verbose
    /\ twin[1].result = DeadlineExceeded /\ twin[2].result = DeadlineExceeded
    /\ \E i, j \in DOMAIN twin[2].pc :
          /\ twin[2].probes[i] = 2 /\ twin[2].last[j] = "Connected"
          /\ Line("dial error", i) \in twin[2].out
          /\ Line("connected", j) \in twin[2].out
    /\ Line("timeout error", 0) \in twin[2].out
    /\ twin[1].out = {}
====
